---- MODULE Spec2Model ----
(***************************************************************************)
(* Knight's tour search of ANNT_PSI_2021 (dfs_warnsdorffs_knights_tour.py) *)
(* as a state machine.  The recursion of find_knights_tour.traverse and    *)
(* the lazy generator consumed by first_true are unfolded into an explicit *)
(* stack of frames; one action is one step of that evaluation.             *)
(*                                                                         *)
(* A vertex is a pair <<row, col>>.  A Python value returned by traverse   *)
(* is a record [kind, value]: kind "list" (a path), "False", "None", or    *)
(* "none" when no value is pending.                                        *)
(*                                                                         *)
(* sorted() is stable, so ties between candidates of equal degree fall in  *)
(* the iteration order of the Python set yet_to_visit.  That order is      *)
(* decided by the interpreter (hashes of int tuples are not randomised),   *)
(* not by this repository: it is a fixed but arbitrary order, drawn once   *)
(* per behaviour from a small family (variable tie).                       *)
(***************************************************************************)
EXTENDS Integers, Sequences, FiniteSets, TLC

VARIABLES board_size, start_row, start_col, tie,
          pc, graph, cell, total_squares, stack, ret, solution, outcome,
          calls, invocation, previous

\* the isolation game (isolation_game.py): the fields of IsolationKnightGame,
\* whether the game has an agent, the Game Over messages shown so far and the
\* number of moves made by hand
VARIABLES visited, knight1_position, knight2_position, current_knight,
          agent, announced, clicks

game_vars == <<visited, knight1_position, knight2_position, current_knight,
               agent, announced, clicks>>

tour_vars == <<board_size, start_row, start_col, tie,
               pc, graph, cell, total_squares, stack, ret, solution, outcome,
               calls, invocation, previous>>

vars == <<board_size, start_row, start_col, tie,
          pc, graph, cell, total_squares, stack, ret, solution, outcome,
          calls, invocation, previous,
          visited, knight1_position, knight2_position, current_knight,
          agent, announced, clicks>>

\* ---- bounds of the model ------------------------------------------------
\* board sizes -NegSizes..MaxSize, start coordinates -StartMargin..MaxSize,
\* at most MaxCalls calls of traverse per invocation, NumTieOrders set orders
NegSizes == 2
MaxSize == 5
StartMargin == 1
MaxCalls == 2300
NumTieOrders == 2

BoardSizes == (0 - NegSizes)..MaxSize
StartCoords == (0 - StartMargin)..MaxSize

\* ---- Python values ------------------------------------------------------
NoValue == [kind |-> "none", value |-> <<>>]
PyFalse == [kind |-> "False", value |-> <<>>]
PyNone == [kind |-> "None", value |-> <<>>]
PyList(s) == [kind |-> "list", value |-> s]

\* ---- the move graph -----------------------------------------------------
\* a mistyped last offset: (2, 2) for (1, 2)
MOVE_OFFSETS_typo ==
    << <<0 - 1, 0 - 2>>, <<1, 0 - 2>>, <<0 - 2, 0 - 1>>, <<2, 0 - 1>>,
       <<0 - 2, 1>>, <<2, 1>>, <<0 - 1, 2>>, <<2, 2>> >>

MOVE_OFFSETS ==
    << <<0 - 1, 0 - 2>>, <<1, 0 - 2>>, <<0 - 2, 0 - 1>>, <<2, 0 - 1>>,
       <<0 - 2, 1>>, <<2, 1>>, <<0 - 1, 2>>, <<1, 2>> >>

\* the generator legal_moves_from, as the sequence of the moves it yields
RECURSIVE legal_moves_upto(_, _, _, _)
legal_moves_upto(row, col, size, k) ==
    IF k = 0 THEN <<>>
    ELSE LET move_row == row + MOVE_OFFSETS[k][1]
             move_col == col + MOVE_OFFSETS[k][2]
             before == legal_moves_upto(row, col, size, k - 1)
         IN IF 0 <= move_row /\ move_row < size /\ 0 <= move_col /\ move_col < size
            THEN Append(before, <<move_row, move_col>>)
            ELSE before

\* the bound test written <= instead of <
legal_moves_from_loose(row, col, size) ==
    legal_moves_upto(row, col, size + 1, Len(MOVE_OFFSETS))

legal_moves_from(row, col, size) == legal_moves_upto(row, col, size, Len(MOVE_OFFSETS))

EmptyGraph == [v \in {} |-> {}]

\* defaultdict(set).__getitem__: a missing key is inserted with an empty set
touch(g, v) ==
    IF v \in DOMAIN g THEN g
    ELSE [w \in DOMAIN g \cup {v} |-> IF w = v THEN {} ELSE g[w]]

add_to(g, a, b) == LET h == touch(g, a) IN [h EXCEPT ![a] = h[a] \cup {b}]

\* only the first of the two insertions
add_edge_one_way(g, vertex_a, vertex_b) == add_to(g, vertex_a, vertex_b)

add_edge(g, vertex_a, vertex_b) == add_to(add_to(g, vertex_a, vertex_b), vertex_b, vertex_a)

RECURSIVE add_edges(_, _, _, _)
add_edges(g, vertex, moves, k) ==
    IF k > Len(moves) THEN g
    ELSE add_edges(add_edge(g, vertex, moves[k]), vertex, moves, k + 1)

\* lines 43-44 for one (row, col): every legal move becomes an edge
build_cell(g, row, col, size) ==
    add_edges(g, <<row, col>>, legal_moves_from(row, col, size), 1)

\* range(board_size) x range(board_size) as one counter cell = row * size + col
cells_left(c, size) == size > 0 /\ c < size * size

\* ---- the heuristic and the ordering of candidates -------------------------
\* descending instead of ascending degree
compute_degree_negated(g, vertex) == 0 - Cardinality(g[vertex])

compute_degree(g, vertex) == Cardinality(g[vertex])

\* position of a vertex in the iteration of a Python set, for the order t
set_rank(t, size, v) ==
    CASE t = 1 -> v[1] * size + v[2]
      [] t = 2 -> 0 - (v[1] * size + v[2])
      [] t = 3 -> v[2] * size + v[1]
      [] OTHER -> 0 - (v[2] * size + v[1])

\* an iteration order that changes from one invocation to the next
RECURSIVE iter_set_reseeded(_, _, _)
iter_set_reseeded(S, t, size) ==
    IF S = {} THEN <<>>
    ELSE LET first == CHOOSE v \in S : \A w \in S :
                          set_rank(t + invocation - 1, size, v) <= set_rank(t + invocation - 1, size, w)
         IN <<first>> \o iter_set_reseeded(S \ {first}, t, size)

RECURSIVE iter_set(_, _, _)
iter_set(S, t, size) ==
    IF S = {} THEN <<>>
    ELSE LET first == CHOOSE v \in S : \A w \in S : set_rank(t, size, v) <= set_rank(t, size, w)
         IN <<first>> \o iter_set(S \ {first}, t, size)

\* elements of seq at the positions of idxs, in increasing position
RECURSIVE sorted_from(_, _, _)
sorted_from(seq, idxs, g) ==
    IF idxs = {} THEN <<>>
    ELSE LET least == CHOOSE i \in idxs : \A j \in idxs :
                          \/ compute_degree(g, seq[i]) < compute_degree(g, seq[j])
                          \/ compute_degree(g, seq[i]) = compute_degree(g, seq[j]) /\ i <= j
         IN <<seq[least]>> \o sorted_from(seq, idxs \ {least}, g)

\* sorted(seq, key=heuristic(graph)): a stable sort
sorted(seq, g) == sorted_from(seq, DOMAIN seq, g)

\* ---- traverse -------------------------------------------------------------
SeqSet(s) == {s[i] : i \in DOMAIN s}

\* the length test without the current vertex
is_complete_off_by_one(path, total) == Len(path) = total

is_complete(path, total) == Len(path) + 1 = total

\* the current vertex put in front of the path
tour_of_prepended(path, current_vertex) == <<current_vertex>> \o path

tour_of(path, current_vertex) == Append(path, current_vertex)

\* the path is not subtracted
yet_to_visit_all(g, path, current_vertex) == g[current_vertex]

\* the last vertex of the path is not subtracted
yet_to_visit_stale(g, path, current_vertex) ==
    g[current_vertex] \ SeqSet(SubSeq(path, 1, Len(path) - 1))

yet_to_visit(g, path, current_vertex) == g[current_vertex] \ SeqSet(path)

\* the path is handed on without the current vertex
extend_forgotten(path, current_vertex) == path

\* line 127: path + [current_vertex]
extend(path, current_vertex) == Append(path, current_vertex)

\* a test for the value True instead of truthiness
truthy_is_True(item) == item.kind = "True"

truthy(item) == item.kind = "list" /\ item.value # <<>>

\* only the first candidate is ever tried
exhausted_after_first(idx, next_vertices) == idx > 1

exhausted(idx, next_vertices) == idx > Len(next_vertices)

Frame(path, v) ==
    [path |-> path, vertex |-> v, phase |-> "enter",
     next_vertices |-> <<>>, idx |-> 0]

Top == stack[Len(stack)]
Pop == SubSeq(stack, 1, Len(stack) - 1)
SetTop(f) == [stack EXCEPT ![Len(stack)] = f]

inputs == <<board_size, start_row, start_col, tie>>

\* ---- initial states -------------------------------------------------------
\* the two programs are separate scripts: while one runs, the state of the
\* other is that of a program that was not started
NoGame ==
    /\ visited = <<>>
    /\ knight1_position = <<>>
    /\ knight2_position = <<>>
    /\ current_knight = 0
    /\ agent = FALSE
    /\ announced = {}
    /\ clicks = 0

NoTour ==
    /\ board_size = 0
    /\ start_row = 0
    /\ start_col = 0
    /\ tie = 1
    /\ pc = "off"
    /\ graph = EmptyGraph
    /\ cell = 0
    /\ total_squares = 0
    /\ stack = <<>>
    /\ ret = NoValue
    /\ solution = NoValue
    /\ outcome = "running"
    /\ calls = 0
    /\ invocation = 1
    /\ previous = [solution |-> NoValue, outcome |-> "running"]

Init ==
    /\ NoGame
    /\ board_size \in BoardSizes
    /\ start_row \in StartCoords
    /\ start_col \in StartCoords
    /\ tie \in 1..NumTieOrders
    /\ pc = "entry"
    /\ graph = EmptyGraph
    /\ cell = 0
    /\ total_squares = 0
    /\ stack = <<>>
    /\ ret = NoValue
    /\ solution = NoValue
    /\ outcome = "running"
    /\ calls = 0
    /\ invocation = 1
    /\ previous = [solution |-> NoValue, outcome |-> "running"]

\* ---- find_knights_tour ----------------------------------------------------
\* lines 113 and 40: build_graph is entered with an empty defaultdict(set)
EnterBuild ==
    /\ pc = "entry"
    /\ graph' = EmptyGraph
    /\ cell' = 0
    /\ pc' = "build"
    /\ UNCHANGED <<game_vars, inputs,total_squares, stack, ret, solution, outcome, calls, invocation, previous>>

\* lines 41-44: one iteration of the loops over row and col
BuildCell ==
    /\ pc = "build"
    /\ cells_left(cell, board_size)
    /\ graph' = build_cell(graph, cell \div board_size, cell % board_size, board_size)
    /\ cell' = cell + 1
    /\ UNCHANGED <<game_vars, inputs,pc, total_squares, stack, ret, solution, outcome, calls, invocation, previous>>

\* lines 45 and 114: build_graph returns, total_squares is computed
FinishBuild ==
    /\ pc = "build"
    /\ ~cells_left(cell, board_size)
    /\ total_squares' = board_size * board_size
    /\ pc' = "built"
    /\ UNCHANGED <<game_vars, inputs,graph, cell, stack, ret, solution, outcome, calls, invocation, previous>>

\* line 130: the call traverse([], (start_row, start_col))
CallTraverse ==
    /\ pc = "built"
    /\ stack' = <<Frame(<<>>, <<start_row, start_col>>)>>
    /\ calls' = 1
    /\ pc' = "search"
    /\ UNCHANGED <<game_vars, inputs,graph, cell, total_squares, ret, solution, outcome, invocation, previous>>

\* lines 117-125: the body of traverse up to the construction of the generator
TraverseBody ==
    /\ pc = "search"
    /\ stack # <<>>
    /\ Top.phase = "enter"
    /\ LET f == Top IN
       IF is_complete(f.path, total_squares)
       THEN /\ ret' = PyList(tour_of(f.path, f.vertex))
            /\ stack' = Pop
            /\ graph' = graph
       ELSE LET g == touch(graph, f.vertex)
                todo == yet_to_visit(g, f.path, f.vertex)
            IN /\ graph' = g
               /\ IF todo = {}
                  THEN /\ ret' = PyFalse
                       /\ stack' = Pop
                  ELSE /\ ret' = NoValue
                       /\ stack' = SetTop([f EXCEPT
                              !.phase = "iter",
                              !.next_vertices = sorted(iter_set(todo, tie, board_size), g),
                              !.idx = 1])
    /\ UNCHANGED <<game_vars, inputs,pc, cell, total_squares, solution, outcome, calls, invocation, previous>>

\* lines 88 and 127: first_true asks the generator for its next item, which
\* starts the next recursive call; line 91 when the generator is exhausted
GeneratorNext ==
    /\ pc = "search"
    /\ stack # <<>>
    /\ Top.phase = "iter"
    /\ ret.kind = "none"
    /\ LET f == Top IN
       IF exhausted(f.idx, f.next_vertices)
       THEN /\ ret' = PyNone
            /\ stack' = Pop
            /\ calls' = calls
       ELSE /\ calls < MaxCalls
            /\ calls' = calls + 1
            /\ ret' = NoValue
            /\ stack' = Append(stack, Frame(extend(f.path, f.vertex), f.next_vertices[f.idx]))
    /\ UNCHANGED <<game_vars, inputs,pc, graph, cell, total_squares, solution, outcome, invocation, previous>>

\* lines 89-90: first_true inspects the item the recursive call returned
FirstTrueItem ==
    /\ pc = "search"
    /\ stack # <<>>
    /\ Top.phase = "iter"
    /\ ret.kind # "none"
    /\ IF truthy(ret)
       THEN /\ stack' = Pop
            /\ ret' = ret
       ELSE /\ stack' = SetTop([Top EXCEPT !.idx = @ + 1])
            /\ ret' = NoValue
    /\ UNCHANGED <<game_vars, inputs,pc, graph, cell, total_squares, solution, outcome, calls, invocation, previous>>

\* line 130: the outermost call returns
AssignSolution ==
    /\ pc = "search"
    /\ stack = <<>>
    /\ ret.kind # "none"
    /\ solution' = ret
    /\ ret' = NoValue
    /\ pc' = "write"
    /\ UNCHANGED <<game_vars, inputs,graph, cell, total_squares, stack, outcome, calls, invocation, previous>>

\* lines 134-140: the generator expression iterates solution; iterating
\* False or None raises TypeError, which leaves find_knights_tour
WriteAndReturn ==
    /\ pc = "write"
    /\ outcome' = IF solution.kind = "list" THEN "returned" ELSE "TypeError"
    /\ pc' = "done"
    /\ UNCHANGED <<game_vars, inputs,graph, cell, total_squares, stack, ret, solution, calls, invocation, previous>>

\* a second invocation with the same arguments
Reinvoke ==
    /\ pc = "done"
    /\ invocation = 1
    /\ invocation' = 2
    /\ previous' = [solution |-> solution, outcome |-> outcome]
    /\ pc' = "entry"
    /\ graph' = EmptyGraph
    /\ cell' = 0
    /\ total_squares' = 0
    /\ stack' = <<>>
    /\ ret' = NoValue
    /\ solution' = NoValue
    /\ outcome' = "running"
    /\ calls' = 0
    /\ UNCHANGED <<game_vars, inputs>>

Next ==
    \/ EnterBuild
    \/ BuildCell
    \/ FinishBuild
    \/ CallTraverse
    \/ TraverseBody
    \/ GeneratorNext
    \/ FirstTrueItem
    \/ AssignSolution
    \/ WriteAndReturn

Spec == Init /\ [][Next]_vars

NextTwice ==
    \/ Next
    \/ Reinvoke

SpecTwice == Init /\ [][NextTwice]_vars

\* boards on which every search ends within MaxCalls calls, one set order,
\* one start vertex for each class of cells under the symmetries of the board
\* (and the starts above the board); the program is sequential and takes its
\* next step whenever it has one
LiveMaxSize == 3

InitLive ==
    /\ Init
    /\ board_size \in 1..LiveMaxSize
    /\ tie = 1
    /\ start_row <= start_col
    /\ 2 * start_col < board_size

SpecLive == InitLive /\ [][Next]_vars /\ WF_vars(Next)

\* ---- vocabulary of the properties ----------------------------------------
Abs(n) == IF n < 0 THEN 0 - n ELSE n

InBoard(v, size) == 0 <= v[1] /\ v[1] < size /\ 0 <= v[2] /\ v[2] < size

Cells(size) == {v \in (0..(size - 1)) \X (0..(size - 1)) : TRUE}

KnightMove(a, b) == Abs(a[1] - b[1]) * Abs(a[2] - b[2]) = 2

start_vertex == <<start_row, start_col>>

ValidInput == board_size >= 1 /\ InBoard(start_vertex, board_size)

Failed(v) == v.kind \in {"False", "None"}

\* a Hamiltonian path of the knight-move graph continues from v over the
\* cells outside seen
KnightOffsets == {d \in (0 - 2..2) \X (0 - 2..2) : Abs(d[1]) * Abs(d[2]) = 2}

KnightTargets(v, size) ==
    {w \in {<<v[1] + d[1], v[2] + d[2]>> : d \in KnightOffsets} : InBoard(w, size)}

RECURSIVE HamiltonianFrom(_, _, _)
HamiltonianFrom(seen, v, size) ==
    \/ Cardinality(seen) = size * size
    \/ \E w \in KnightTargets(v, size) \ seen :
          HamiltonianFrom(seen \cup {w}, w, size)

\* size of the full neighbour set of v in the move graph
RawDegree(v) == Cardinality(graph[v])

\* C1: on a valid input, a success returned by traverse has length
\* board_size^2 and contains every cell of the board exactly once
C1_TourCoversBoard ==
    ValidInput /\ ret.kind = "list" =>
        /\ Len(ret.value) = board_size * board_size
        /\ SeqSet(ret.value) = Cells(board_size)

C1_Witness ==
    ValidInput /\ ret.kind = "list" /\ board_size = 5 /\ stack = <<>> /\ calls > 25

\* C2: consecutive vertices of a successful tour differ by a knight offset
C2_ConsecutiveKnightMoves ==
    ret.kind = "list" =>
        \A i \in 1..(Len(ret.value) - 1) : KnightMove(ret.value[i], ret.value[i + 1])

C2_Witness ==
    ret.kind = "list" /\ Len(ret.value) = 25 /\ Len(stack) = 24

\* C3: the first element of a successful tour returned by find_knights_tour
\* is the requested start vertex
C3_TourStartsAtStart ==
    solution.kind = "list" => solution.value[1] = start_vertex

C3_Witness ==
    solution.kind = "list" /\ outcome = "returned" /\ Len(solution.value) > 1

\* C4: on a valid input the search fails only if no Hamiltonian path of the
\* knight-move graph starts at the start vertex; it fails on boards of size
\* 2, 3 and 4
C4_FailureMeansNoTour ==
    ValidInput /\ pc = "done" =>
        /\ Failed(solution) => ~HamiltonianFrom({start_vertex}, start_vertex, board_size)
        /\ board_size \in 2..4 => Failed(solution)

C4_Witness ==
    ValidInput /\ pc = "done" /\ Failed(solution) /\ board_size = 4

\* C5 (as claimed): on a valid input, a search that ends without a tour is
\* handed to the caller as a value, find_knights_tour does not end in an
\* exception
C5_NoTourIsReturned ==
    ValidInput /\ pc = "done" /\ Failed(solution) => outcome = "returned"

\* C6 (as claimed): for board_size <= 0 the call is rejected before the graph
\* is built and before traverse is called
C6_BadSizeRejected ==
    board_size <= 0 => pc \notin {"build", "built", "search"} /\ calls = 0

\* C7 (as claimed): for a start vertex outside the board the call is rejected
\* before traverse is called, and no success holds an out-of-board cell
C7_BadStartRejected ==
    board_size >= 1 /\ ~InBoard(start_vertex, board_size) =>
        /\ calls = 0
        /\ solution.kind = "list" =>
               \A i \in DOMAIN solution.value : InBoard(solution.value[i], board_size)

\* C8: once a recursive attempt has returned a success, the next step starts
\* no traverse call: it hands the same value to the enclosing level, and at
\* the outermost level the value becomes the solution
C8_ShortCircuit ==
    [][pc = "search" /\ ret.kind = "list" =>
          /\ calls' = calls
          /\ IF stack = <<>>
             THEN solution' = ret
             ELSE ret' = ret /\ stack' = Pop]_vars

C8_Witness ==
    /\ pc = "search" /\ ret.kind = "list" /\ stack # <<>>
    /\ \E i \in DOMAIN stack : stack[i].idx < Len(stack[i].next_vertices)

\* C9: when a traverse call is started for a candidate, every unvisited
\* neighbour of the node with strictly smaller raw degree was attempted before
C9_AscendingDegree ==
    [][pc = "search" /\ calls' = calls + 1 =>
          LET f == Top
              v == stack'[Len(stack')].vertex
              attempted == {f.next_vertices[i] : i \in 1..(f.idx - 1)}
          IN /\ v \in graph[f.vertex] \ SeqSet(f.path)
             /\ \A w \in graph[f.vertex] \ SeqSet(f.path) :
                   RawDegree(w) < RawDegree(v) => w \in attempted]_vars

C9_Witness ==
    /\ pc = "search" /\ stack # <<>> /\ Top.phase = "enter" /\ Len(stack) > 1
    /\ LET f == stack[Len(stack) - 1]
       IN f.idx > 1 /\ RawDegree(f.next_vertices[1]) < RawDegree(Top.vertex)

C11_GraphSymmetric ==
    \A a \in DOMAIN graph : \A b \in graph[a] : b \in DOMAIN graph /\ a \in graph[b]

C11_Witness ==
    pc = "built" /\ board_size = 5 /\ <<2, 1>> \in graph[<<0, 0>>]

\* C12: for board_size 1 and start (0, 0) the search succeeds with the tour
\* [(0, 0)] in its first call, and no neighbour set is looked up (no key is
\* inserted into the graph)
C12_SingleCellTour ==
    board_size = 1 /\ start_vertex = <<0, 0>> =>
        /\ calls <= 1
        /\ graph = EmptyGraph
        /\ pc \in {"write", "done"} => solution = PyList(<< <<0, 0>> >>)
        /\ pc = "done" => outcome = "returned"

C12_Witness ==
    board_size = 1 /\ start_vertex = <<0, 0>> /\ pc = "done" /\ calls = 1

\* C13: for board_size >= 1 every search reaches its end; every recursive call
\* gets a path one vertex longer than its caller's, and the recursion is never
\* deeper than total_squares
C13_Terminates ==
    /\ [][pc = "search" /\ calls' = calls + 1 =>
             /\ Len(stack'[Len(stack')].path) = Len(Top.path) + 1
             /\ Len(stack') <= total_squares]_vars
    /\ <>(pc = "done")

C13_Witness ==
    pc = "done" /\ board_size = 3 /\ calls > 10

NoDuplicates(s) == \A i, j \in DOMAIN s : s[i] = s[j] => i = j

\* C14: the path of every traverse call has no duplicate vertex and does not
\* contain the call's current vertex
C14_NoRevisit ==
    \A i \in DOMAIN stack :
        NoDuplicates(stack[i].path) /\ stack[i].vertex \notin SeqSet(stack[i].path)

C14_Witness ==
    /\ Len(stack) > 3 /\ Top.phase = "enter"
    /\ stack[Len(stack) - 1].idx > 1

\* C15 (as claimed): once build_graph has returned, no step of the search
\* changes the graph, on valid inputs
C15_GraphReadOnly ==
    [][ValidInput /\ pc \in {"built", "search", "write"} => graph' = graph]_vars

GameBoardSize == 8

\* line 10: the default of lookahead_depth, which line 154 does not override
lookahead_depth == 2

\* lines 76 and 94: the score -9999
VeryUndesirable == 9999

\* at most MaxClicks moves are made by hand in one game
MaxClicks == 5

\* lines 133-142
knight_moves ==
    << <<2, 1>>, <<1, 2>>, <<0 - 1, 2>>, <<0 - 2, 1>>,
       <<0 - 2, 0 - 1>>, <<0 - 1, 0 - 2>>, <<1, 0 - 2>>, <<2, 0 - 1>> >>

GameCells == (0..(GameBoardSize - 1)) \X (0..(GameBoardSize - 1))

\* [(position[0] + move[0], position[1] + move[1]) for move in knight_moves]
moves_of(position) ==
    [i \in DOMAIN knight_moves |->
        <<position[1] + knight_moves[i][1], position[2] + knight_moves[i][2]>>]

\* visited is a list of rows; Python lists count from 0
at(vis, c) == vis[c[1] + 1][c[2] + 1]

mark(vis, c, knight) == [vis EXCEPT ![c[1] + 1][c[2] + 1] = knight]

\* ---- IsolationKnightGame: the tests of a move ----------------------------
\* the test of visited left out
is_valid_move_revisit(vis, start, end) ==
    \E i \in DOMAIN knight_moves : moves_of(start)[i] = end

is_valid_move(vis, start, end) ==
    /\ \E i \in DOMAIN knight_moves : moves_of(start)[i] = end
    /\ at(vis, end) = 0

\* a knight is never found to be stuck
has_valid_moves_always(vis, position) == TRUE

has_valid_moves(vis, position) ==
    \E i \in DOMAIN knight_moves :
        LET next_move == moves_of(position)[i]
        IN InBoard(next_move, GameBoardSize) /\ at(vis, next_move) = 0

\* ---- KnightAgent ----------------------------------------------------------
get_legal_moves(vis, position) ==
    SelectSeq(moves_of(position),
              LAMBDA move : InBoard(move, GameBoardSize) /\ at(vis, move) = 0)

\* list.sort(key=...) is stable: a pair <<key, move>> goes behind the pairs
\* whose key is not greater
insert_by_key(pairs, p) ==
    SelectSeq(pairs, LAMBDA q : q[1] <= p[1]) \o <<p>> \o
    SelectSeq(pairs, LAMBDA q : q[1] > p[1])

RECURSIVE sort_upto(_, _, _)
sort_upto(vis, moves, k) ==
    IF k = 0 THEN <<>>
    ELSE insert_by_key(sort_upto(vis, moves, k - 1),
                       <<Len(get_legal_moves(vis, moves[k])), moves[k]>>)

warnsdorffs_rule(vis, position) ==
    LET legal_moves == get_legal_moves(vis, position)
        pairs == sort_upto(vis, legal_moves, Len(legal_moves))
    IN [i \in DOMAIN pairs |-> pairs[i][2]]

\* exact fractions with positive denominators
RECURSIVE Gcd(_, _)
Gcd(a, b) == IF b = 0 THEN a ELSE Gcd(b, a % b)

Lcm(a, b) == (a \div Gcd(a, b)) * b

Frac(n, d) == [num |-> n, den |-> d]

FracGreater(a, b) ==
    LET g == Gcd(a.den, b.den)
    IN a.num * (b.den \div g) > b.num * (a.den \div g)

FracEqual(a, b) ==
    LET g == Gcd(a.den, b.den)
    IN a.num * (b.den \div g) = b.num * (a.den \div g)

FracAdd(a, b) ==
    LET l == Lcm(a.den, b.den)
    IN Frac(a.num * (l \div a.den) + b.num * (l \div b.den), l)

RECURSIVE FracSum(_, _)
FracSum(scores, k) ==
    IF k = 0 THEN Frac(0, 1) ELSE FracAdd(FracSum(scores, k - 1), scores[k])

RECURSIVE evaluate_position(_, _, _)
\* the scores of lines 78, one by one
RECURSIVE scores_upto(_, _, _, _)
scores_upto(vis, possible_moves, depth, k) ==
    IF k = 0 THEN <<>>
    ELSE Append(scores_upto(vis, possible_moves, depth, k - 1),
                evaluate_position(vis, possible_moves[k], depth - 1))

evaluate_position(vis, position, depth) ==
    IF depth = 0 THEN Frac(Len(get_legal_moves(vis, position)), 1)
    ELSE LET possible_moves == warnsdorffs_rule(vis, position)
         IN IF possible_moves = <<>> THEN Frac(0 - VeryUndesirable, 1)
            ELSE LET scores == scores_upto(vis, possible_moves, depth, Len(possible_moves))
                     total == FracSum(scores, Len(scores))
                 IN Frac(total.num, total.den * Len(scores))

\* the loop of lines 96-100 from its k-th candidate on: best_value, and the
\* moves on which best_move can stand (none: best_move is None)
RECURSIVE best_moves_from(_, _, _, _, _)
best_moves_from(vis, moves, k, best_value, best) ==
    IF k > Len(moves) THEN best
    ELSE LET move_value == evaluate_position(vis, moves[k], lookahead_depth)
         IN IF FracGreater(move_value, best_value)
            THEN best_moves_from(vis, moves, k + 1, move_value, {moves[k]})
            ELSE IF best # {} /\ FracEqual(move_value, best_value)
                 THEN best_moves_from(vis, moves, k + 1, best_value, best \cup {moves[k]})
                 ELSE best_moves_from(vis, moves, k + 1, best_value, best)

best_moves(vis, knight_pos) ==
    best_moves_from(vis, warnsdorffs_rule(vis, knight_pos), 1,
                    Frac(0 - VeryUndesirable, 1), {})

\* ---- the click handler ----------------------------------------------------
game ==
    [visited |-> visited,
     knight1_position |-> knight1_position,
     knight2_position |-> knight2_position,
     current_knight |-> current_knight,
     agent |-> agent,
     announced |-> announced]

RECURSIVE on_square_click(_, _, _)

\* lines 81-103; the agent is KnightAgent(self, 2), its knight is knight 2
make_move(g) ==
    LET knight_pos == g.knight2_position
        best == best_moves(g.visited, knight_pos)
    IN IF best = {} THEN {g}
       ELSE UNION {on_square_click(g, best_move[1], best_move[2]) : best_move \in best}

on_square_click(g, x, y) ==
    IF g.current_knight = 1
    THEN IF is_valid_move(g.visited, g.knight1_position, <<x, y>>)
         THEN LET moved == [g EXCEPT !.knight1_position = <<x, y>>,
                                     !.visited = mark(@, <<x, y>>, 1)]
              IN IF ~has_valid_moves(moved.visited, moved.knight2_position)
                 THEN {[moved EXCEPT !.announced = @ \cup {"Knight 1 Wins!"}]}
                 ELSE LET handed == [moved EXCEPT !.current_knight = 2]
                      IN IF handed.agent THEN make_move(handed) ELSE {handed}
         ELSE {g}
    ELSE IF g.current_knight = 2
         THEN IF is_valid_move(g.visited, g.knight2_position, <<x, y>>)
              THEN LET moved == [g EXCEPT !.knight2_position = <<x, y>>,
                                          !.visited = mark(@, <<x, y>>, 2)]
                   IN IF ~has_valid_moves(moved.visited, moved.knight1_position)
                      THEN {[moved EXCEPT !.announced = @ \cup {"Knight 2 Wins!"}]}
                      ELSE {[moved EXCEPT !.current_knight = 1]}
              ELSE {g}
         ELSE {g}

\* ---- the game as a state machine -------------------------------------------
\* the command lines the games are started with: --knight1, --knight2, --agent
GameSetups ==
    {[knight1_start |-> <<0, 0>>, knight2_start |-> <<7, 7>>, use_agent |-> FALSE],
     [knight1_start |-> <<2, 1>>, knight2_start |-> <<3, 3>>, use_agent |-> FALSE],
     [knight1_start |-> <<0, 0>>, knight2_start |-> <<7, 7>>, use_agent |-> TRUE],
     [knight1_start |-> <<0, 0>>, knight2_start |-> <<3, 2>>, use_agent |-> TRUE]}

\* lines 124-154
new_game(knight1_start, knight2_start, use_agent) ==
    /\ visited = mark(mark([i \in 1..GameBoardSize |-> [j \in 1..GameBoardSize |-> 0]],
                           knight1_start, 1),
                      knight2_start, 2)
    /\ current_knight = 1
    /\ knight1_position = knight1_start
    /\ knight2_position = knight2_start
    /\ agent = use_agent
    /\ announced = {}
    /\ clicks = 0

InitGame ==
    /\ NoTour
    /\ \E setup \in GameSetups :
         new_game(setup.knight1_start, setup.knight2_start, setup.use_agent)

\* a click on the square (x, y), lines 174 and 199-231
Click(x, y) ==
    /\ \E g \in on_square_click(game, x, y) :
          /\ visited' = g.visited
          /\ knight1_position' = g.knight1_position
          /\ knight2_position' = g.knight2_position
          /\ current_knight' = g.current_knight
          /\ agent' = g.agent
          /\ announced' = g.announced
          /\ clicks' = IF g = game THEN clicks ELSE clicks + 1
    /\ UNCHANGED tour_vars

OnSquareClick ==
    /\ clicks < MaxClicks
    /\ \E x, y \in 0..(GameBoardSize - 1) : Click(x, y)

NextGame == OnSquareClick

SpecGame == InitGame /\ [][NextGame]_vars

\* a game against the agent in which the player keeps knight 1 inside the
\* squares of rows 1..5 and columns 2..6; such a game ends by itself
PlayerSquares == (1..5) \X (2..6)

InitAgentGame ==
    /\ NoTour
    /\ new_game(<<0, 0>>, <<3, 2>>, TRUE)

ClickInside == \E c \in PlayerSquares : Click(c[1], c[2])

NextAgentGame == ClickInside

SpecAgentGame == InitAgentGame /\ [][NextAgentGame]_vars

\* ---- vocabulary of the properties of the game ------------------------------
MarkedCells == {c \in GameCells : at(visited, c) # 0}

mover_position == IF current_knight = 1 THEN knight1_position ELSE knight2_position

\* a click on c is a move of the knight whose turn it is
IsMove(c) == KnightMove(mover_position, c) /\ at(visited, c) = 0

\* C17: a knight only ever moves to a cell that was unvisited and is a knight
\* offset away from where it stood, the cell is then marked with its number;
\* marks are never changed; the knights never stand on the same cell; a click
\* that is no such move leaves the game as it is
C17_MovesAreLegal ==
    /\ [](knight1_position # knight2_position)
    /\ [](\A c \in GameCells : ~IsMove(c) => on_square_click(game, c[1], c[2]) = {game})
    /\ [][/\ knight1_position' # knight1_position =>
                /\ KnightMove(knight1_position, knight1_position')
                /\ at(visited, knight1_position') = 0
                /\ at(visited', knight1_position') = 1
          /\ knight2_position' # knight2_position =>
                /\ KnightMove(knight2_position, knight2_position')
                /\ at(visited, knight2_position') = 0
                /\ at(visited', knight2_position') = 2
          /\ \A c \in MarkedCells : at(visited', c) = at(visited, c)
          /\ (visited' # visited \/ current_knight' # current_knight) =>
                (knight1_position' # knight1_position \/ knight2_position' # knight2_position)
         ]_vars

C17_Witness ==
    /\ agent /\ clicks = 3 /\ current_knight = 1 /\ Cardinality(MarkedCells) = 8
    /\ \E c \in GameCells : KnightMove(knight1_position, c) /\ at(visited, c) # 0

\* C18: as long as no Game Over has been announced, the knight whose turn it
\* is has a legal move
C18_TurnHolderCanMove ==
    announced = {} => \E c \in GameCells : IsMove(c)

C18_Witness ==
    /\ announced = {} /\ clicks >= 2 /\ current_knight = 2
    /\ Cardinality({c \in GameCells : IsMove(c)}) = 1

\* C19 (as claimed): with the agent, a move of knight 1 that leaves knight 2 a
\* legal move is answered within the same click by a move of knight 2, after
\* which it is knight 1's turn or a Game Over has been announced; the player
\* never finds the turn left with knight 2
C19_AgentAnswers ==
    /\ [](agent /\ announced = {} => current_knight = 1)
    /\ [][/\ agent
          /\ knight1_position' # knight1_position
          /\ \E c \in GameCells :
                /\ KnightMove(knight2_position, c)
                /\ at(visited, c) = 0
                /\ c # knight1_position'
          => /\ knight2_position' # knight2_position
             /\ current_knight' = 1 \/ announced' # {}]_vars

\* C20 (as claimed): once a Game Over has been announced, no click changes the
\* position of a knight, the visited board or current_knight
C20_GameOverIsTerminal ==
    [][announced # {} =>
          UNCHANGED <<visited, knight1_position, knight2_position, current_knight>>]_vars

====
